---- MODULE Spec2Model ----
(***************************************************************************)
(* Thor triangulation engine (src/thor-v1.0-sdk/src/Triangulation.cpp):    *)
(* incremental constrained Delaunay triangulation with edge flips and the  *)
(* flood-fill removal of the triangles outside the constrained polygon.    *)
(*                                                                         *)
(* Numbers.  The code computes on float; the model computes on exact reals *)
(* of the form c0 + c1*eps + c2*eps^2 + ..., eps = 0.000372 being the      *)
(* perturbation SetBoundaryPositions adds to the boundary points.  Such a  *)
(* number is the sequence <<c0, c1, ...>> of its integer coefficients; a   *)
(* coordinate is the pair <<c0, c1>>.  User points have integer            *)
(* coordinates <<c0, 0>>, so they are exact in float too.                  *)
(***************************************************************************)
EXTENDS Integers, Sequences, FiniteSets, TLC

\* ------------------------------------------------------------------ bounds

\* Largest number of user vertices handed to the triangulation.
MaxPoints == 4

\* floor((1 - eps) / eps) for eps = 0.000372: with every later coefficient at
\* most EpsilonInverse times the first nonzero one, that one decides the sign.
EpsilonInverse == 2687

\* ----------------------------------------------------------- number helpers

Abs(n) == IF n < 0 THEN -n ELSE n

Max2(a, b) == IF a < b THEN b ELSE a

Coef(p, k) == IF k <= Len(p) THEN p[k] ELSE 0

\* The function f on 1..n as a sequence.
Tuple(f) == f \o <<>>

\* A number without eps part.
IsInt(p) == Len(p) = 1 \/ (Len(p) = 2 /\ p[2] = 0)

PAdd(p, q) ==
    IF IsInt(p) /\ IsInt(q) THEN <<p[1] + q[1]>>
    ELSE Tuple([k \in 1..Max2(Len(p), Len(q)) |-> Coef(p, k) + Coef(q, k)])

PSub(p, q) ==
    IF IsInt(p) /\ IsInt(q) THEN <<p[1] - q[1]>>
    ELSE Tuple([k \in 1..Max2(Len(p), Len(q)) |-> Coef(p, k) - Coef(q, k)])

\* The sum of p[i] * q[k + 1 - i] for i in first..last.
RECURSIVE Conv(_, _, _, _, _)
Conv(p, q, k, first, last) ==
    IF first > last THEN 0
    ELSE p[first] * q[k + 1 - first] + Conv(p, q, k, first + 1, last)

PMul(p, q) ==
    IF IsInt(p) /\ IsInt(q) THEN <<p[1] * q[1]>>
    ELSE Tuple([k \in 1..(Len(p) + Len(q) - 1) |->
                  Conv(p, q, k, Max2(1, k + 1 - Len(q)), IF k < Len(p) THEN k ELSE Len(p))])

PScale(n, p) == Tuple([k \in 1..Len(p) |-> n * p[k]])

\* An evaluation the coefficient representation cannot decide stops the check.
Undecided == CHOOSE x \in {} : TRUE

RECURSIVE SgnFrom(_, _)
SgnFrom(p, j) ==
    IF j > Len(p) THEN 0
    ELSE IF p[j] = 0 THEN SgnFrom(p, j + 1)
    ELSE IF \A k \in (j + 1)..Len(p) :
                (Abs(p[k]) + EpsilonInverse - 1) \div EpsilonInverse <= Abs(p[j])
         THEN (IF p[j] < 0 THEN -1 ELSE 1)
         ELSE Undecided

\* The sign (-1, 0, 1) of the real number p.
Sgn(p) == SgnFrom(p, 1)

\* p < q for two coordinates.
Less(p, q) == Sgn(<<p[1] - q[1], p[2] - q[2]>>) < 0

\* ---------------------------------------------------------- vector algebra

\* Vectors of coordinates: <<x, y>> with x = <<x0, x1>> and y = <<y0, y1>>.
VSub(a, b) == << <<a[1][1] - b[1][1], a[1][2] - b[1][2]>>,
                 <<a[2][1] - b[2][1], a[2][2] - b[2][2]>> >>

VAdd(a, b) == << <<a[1][1] + b[1][1], a[1][2] + b[1][2]>>,
                 <<a[2][1] + b[2][1], a[2][2] + b[2][2]>> >>

\* z component of the cross product of two plane vectors, a.x * b.y - a.y * b.x:
\* its three coefficients.
CrossProduct(a, b) ==
    << a[1][1] * b[2][1] - a[2][1] * b[1][1],
       a[1][1] * b[2][2] + a[1][2] * b[2][1] - a[2][1] * b[1][2] - a[2][2] * b[1][1],
       a[1][2] * b[2][2] - a[2][2] * b[1][2] >>

PerpendicularVector(v) == << <<-v[2][1], -v[2][2]>>, v[1] >>

\* Of a vector of numbers with any number of coefficients.
SquaredLength(v) == PAdd(PMul(v[1], v[1]), PMul(v[2], v[2]))

SumVectorComponents(v) == <<v[1][1] + v[2][1], v[1][2] + v[2][2]>>

\* ClockwiseOrientation with the strict comparison.
ClockwiseOrientationStrict(v0, v1, v2) ==
    Sgn(CrossProduct(VSub(v1, v0), VSub(v2, v0))) < 0

ClockwiseOrientation(v0, v1, v2) ==
    Sgn(CrossProduct(VSub(v1, v0), VSub(v2, v0))) <= 0


\* ------------------------------------------------------------------- state

VARIABLES
    pos,              \* vertex -> position; 1..3 are boundaryVertices, 4.. the user vertices
    constrainedEdges, \* EdgeSet: AdvancedEdge values <<corner 0, corner 1>>
    triangles,        \* TriangleList: handle -> AdvancedTriangle
    nextHandle,       \* the handle the next InsertTriangle returns
    surrounding,      \* vertex -> mSurroundingTriangle
    inserted,         \* number of user vertices InsertPoint has returned for
    pc,               \* "idle", "repair", "trim", "done" or "abort"
    frames,           \* pending repair calls of the running InsertPoint, innermost last
    stack,            \* std::stack of RemoveOuterPolygonTriangles, top last
    last,             \* the step just taken: [op, first, second, ret]
    failed            \* the assertion that failed, or the undefined behaviour met

vars == <<pos, constrainedEdges, triangles, nextHandle, surrounding, inserted,
          pc, frames, stack, last, failed>>

\* The three dummy vertices of CreateBoundaryPoints.
BoundaryVertices == {1, 2, 3}

NumVertices == Cardinality(DOMAIN pos)

UserVertices == DOMAIN pos \ BoundaryVertices

\* A user vertex at integer coordinates x, y.
Vertex(x, y) == << <<x, 0>>, <<y, 0>> >>

\* --------------------------------------------------------- AdvancedTriangle

AdvancedTriangle(corner0, corner1, corner2) ==
    [c |-> <<corner0, corner1, corner2>>, adj |-> <<0, 0, 0>>,
     flagged |-> FALSE, rem |-> {}]

\* Corner and adjacency indices are the code's: 0, 1, 2.
Corner(t, index) == t.c[index + 1]

GetAdjacentTriangle(t, index) == t.adj[index + 1]

SetAdjacentTriangle(T, h, index, adjacent) ==
    [T EXCEPT ![h].adj[index + 1] = adjacent]

At(T, h, index) == pos[Corner(T[h], index)]

\* --------------------------------------------------------------- bootstrap

\* Positions CreateBoundaryPoints gives the dummy vertices before they are set.
InitialBoundaryCoords == {-1, 0, 1}

MaxOf(S) == CHOOSE m \in S : \A x \in S : x <= m

\* maxCoord taken over the caller's points alone, from 0.
MaxCoordOfInput(points) ==
    MaxOf({0}
          \cup {Abs(points[i][1][1]) : i \in DOMAIN points}
          \cup {Abs(points[i][2][1]) : i \in DOMAIN points})

\* maxCoord of SetBoundaryPositions over allVertices (the dummy vertices are in it).
MaxCoord(points) ==
    MaxOf({Abs(x) : x \in InitialBoundaryCoords}
          \cup {Abs(points[i][1][1]) : i \in DOMAIN points}
          \cup {Abs(points[i][2][1]) : i \in DOMAIN points})

\* epsilon is the number <<0, 1>>.
SetBoundaryPositions(points) ==
    LET m == 4 * MaxCoord(points)
    IN  <<  << <<0, 1>>,       <<m, -1>> >>,
            << <<m, 1>>,       <<0, -1>> >>,
            << <<-m, -1>>,     <<-m, 1>> >>  >>

\* AdvancedEdge::OrderCorners: corner 0 is the one with the smaller x + y.
AdvancedEdge(P, startPoint, endPoint) ==
    IF Less(SumVectorComponents(P[endPoint]), SumVectorComponents(P[startPoint]))
    THEN <<endPoint, startPoint>>
    ELSE <<startPoint, endPoint>>


\* -------------------------------------------------------------- predicates

\* Proper intersection of the segments a-b and c-d: each segment has its end
\* points strictly on different sides of the other.
Intersect(a, b, c, d) ==
    /\ Sgn(CrossProduct(VSub(b, a), VSub(c, a))) * Sgn(CrossProduct(VSub(b, a), VSub(d, a))) < 0
    /\ Sgn(CrossProduct(VSub(d, c), VSub(a, c))) * Sgn(CrossProduct(VSub(d, c), VSub(b, c))) < 0

\* IntersectsEdge without the test: no constrained edge ever blocks.
IntersectsEdgeNever(edge) == FALSE

\* Checks if edge intersects any constrained edge in constrainedEdges.
IntersectsEdge(edge) ==
    \E e \in constrainedEdges :
        Intersect(pos[edge[1]], pos[edge[2]], pos[e[1]], pos[e[2]])

\* CompareEdges: lexicographic on (x, y) of corner 0, then of corner 1.

LessPoint(a, b) == Less(a[1], b[1]) \/ (a[1] = b[1] /\ Less(a[2], b[2]))

CompareEdges(lhs, rhs) ==
    \/ LessPoint(pos[lhs[1]], pos[rhs[1]])
    \/ (pos[lhs[1]] = pos[rhs[1]] /\ LessPoint(pos[lhs[2]], pos[rhs[2]]))

\* IsEdgeConstrained answering for a set that holds every edge.
IsEdgeConstrainedAlways(startPoint, endPoint) == TRUE

\* std::set::find under CompareEdges: an element equivalent to adv.
IsEdgeConstrained(startPoint, endPoint) ==
    LET adv == AdvancedEdge(pos, startPoint, endPoint)
    IN  \E candidate \in constrainedEdges :
            ~CompareEdges(adv, candidate) /\ ~CompareEdges(candidate, adv)

\* The circle is kept as fractions: midPoint = num / den and
\* squaredRadius = rad / den^2 (p, q, v, w below are twice the code's).

\* Circle(intersection, SquaredLength(intersection - At(triangle, 0))).
Circle(a, nx, ny, d) ==
    [num |-> <<nx, ny>>, den |-> d,
     rad |-> SquaredLength(<<PSub(nx, PMul(d, a[1])), PSub(ny, PMul(d, a[2]))>>)]

\* The intersection of the lines p + s*v and q + t*w.
Intersection(a, p, q, v, w) ==
    Circle(a,
        PSub(PMul(v[1], PSub(PAdd(PMul(p[2], w[1]), PMul(q[1], w[2])), PMul(q[2], w[1]))),
             PMul(PMul(p[1], v[2]), w[1])),
        PSub(PMul(w[2], PSub(PAdd(PMul(p[2], v[1]), PMul(q[1], v[2])), PMul(p[1], v[2]))),
             PMul(PMul(q[2], v[2]), w[1])),
        PScale(2, PSub(PMul(v[1], w[2]), PMul(v[2], w[1]))))

\* The perpendicular bisectors of the sides with the midpoints p and q.
Bisectors(a, p, q) ==
    Intersection(a, p, q, PerpendicularVector(VSub(p, VAdd(a, a))),
                          PerpendicularVector(VSub(q, VAdd(a, a))))

ComputeCircumcircle(T, h) ==
    Bisectors(At(T, h, 0), VAdd(At(T, h, 0), At(T, h, 1)), VAdd(At(T, h, 0), At(T, h, 2)))

ComputeCircumcircleAsserts(T, h) ==
    At(T, h, 0) # At(T, h, 1) /\ At(T, h, 0) # At(T, h, 2)

\* SquaredLength(point - circle.midPoint) < circle.squaredRadius.  A zero
\* denominator makes the float midpoint infinite or NaN, and the comparison false.
\* InsideCircle with the comparison lost: no point is ever inside.
InsideCircleNever(circle, point) == FALSE

\* InsideCircle that takes a point on the circle as inside.
InsideCircleOrOn(circle, point) ==
    /\ Sgn(circle.den) # 0
    /\ Sgn(PSub(SquaredLength(<<PSub(PMul(circle.den, point[1]), circle.num[1]),
                                PSub(PMul(circle.den, point[2]), circle.num[2])>>),
                circle.rad)) <= 0

InsideCircle(circle, point) ==
    /\ Sgn(circle.den) # 0
    /\ Sgn(PSub(SquaredLength(<<PSub(PMul(circle.den, point[1]), circle.num[1]),
                                PSub(PMul(circle.den, point[2]), circle.num[2])>>),
                circle.rad)) < 0

\* IsVertexInSection3 with the wedge taken from corner2 to corner1.
IsVertexInSection3Reversed(p, center, corner1, corner2) ==
    /\ Sgn(CrossProduct(VSub(corner2, center), VSub(p, center))) < 0
    /\ Sgn(CrossProduct(VSub(corner1, center), VSub(p, center))) >= 0

\* Wedge test of the split: vertex beyond corner1-center and not beyond corner2-center.
IsVertexInSection3(p, center, corner1, corner2) ==
    /\ Sgn(CrossProduct(VSub(corner1, center), VSub(p, center))) < 0
    /\ Sgn(CrossProduct(VSub(corner2, center), VSub(p, center))) >= 0

\* Half-plane test of the flip: vertex on the left of corner2 - corner1.
IsVertexInSection2(p, corner1, corner2) ==
    Sgn(CrossProduct(VSub(corner2, corner1), VSub(p, corner1))) >= 0

\* ------------------------------------------------------------ ArrangeCorners

\* match[i] for rotation j, i in 0..2.
Match(T, first, second, j, i) == At(T, first, (j + i) % 3) = At(T, second, 2 - i)

MatchCount(T, first, second, j) ==
    Cardinality({i \in 0..2 : Match(T, first, second, j, i)})

MinOf(S) == CHOOSE x \in S : \A y \in S : x <= y

\* [ok, sc1, sc2, dc] for the matching index pairs a, b and the mismatch dc:
\* the shared pairs are exchanged when first's corners a, b, dc are not clockwise.
IndexPairs(T, first, second, a, b, dc) ==
    LET swap == ~ClockwiseOrientation(At(T, first, a[1]), At(T, first, b[1]),
                                      At(T, first, dc[1]))
    IN  [ok  |-> /\ Corner(T[first], a[1]) = Corner(T[second], a[2])
                 /\ Corner(T[first], b[1]) = Corner(T[second], b[2])
                 /\ Corner(T[first], dc[1]) # Corner(T[second], dc[2]),
         sc1 |-> IF swap THEN b ELSE a,
         sc2 |-> IF swap THEN a ELSE b,
         dc  |-> dc]

\* Rotation j with the matching indices S.
Rotation(T, first, second, j, S) ==
    IndexPairs(T, first, second,
        <<(j + MinOf(S)) % 3, 2 - MinOf(S)>>,
        <<(j + (CHOOSE x \in S : x # MinOf(S))) % 3, 2 - (CHOOSE x \in S : x # MinOf(S))>>,
        <<(j + (CHOOSE x \in 0..2 : x \notin S)) % 3, 2 - (CHOOSE x \in 0..2 : x \notin S)>>)

\* J holds the rotations with two matches.
Rotations(T, first, second, J) ==
    IF J = {} THEN [ok |-> FALSE, sc1 |-> <<0, 0>>, sc2 |-> <<0, 0>>, dc |-> <<0, 0>>]
    ELSE Rotation(T, first, second, MinOf(J),
                  {i \in 0..2 : Match(T, first, second, MinOf(J), i)})

\* [ok, sc1, sc2, dc]: the index pairs <<of first, of second>>; ok is false when
\* one of the function's assertions fails.
ArrangeCorners(T, first, second) ==
    Rotations(T, first, second, {j \in 0..2 : MatchCount(T, first, second, j) = 2})


\* ------------------------------------------------------------ mesh surgery
\* The operators below work on a mesh value m = [T, S, err]: the triangle list,
\* the vertices' surrounding triangles, and the first failed assertion ("" if none).

Fail(m, what) == IF m.err = "" THEN [m EXCEPT !.err = what] ELSE m

\* InsertTriangle with the first two corners exchanged.
InsertTriangleMirrored(T, h, corner0, corner1, corner2) ==
    T @@ (h :> AdvancedTriangle(corner1, corner0, corner2))

InsertTriangle(T, h, corner0, corner1, corner2) ==
    T @@ (h :> AdvancedTriangle(corner0, corner1, corner2))

Erase(T, gone) == [h \in DOMAIN T \ gone |-> T[h]]

\* UpdateAdjacentBackReferences that leaves the other triangle as it is.
UpdateAdjacentBackReferencesSkipped(m, oldTriangle, newTriangle, other) == m

\* Updates other's reference back to oldTriangle; it becomes newTriangle.
UpdateAdjacentBackReferences(m, oldTriangle, newTriangle, other) ==
    IF m.err # "" \/ other = 0 THEN m
    ELSE IF other \notin DOMAIN m.T THEN Fail(m, "dangling")
    ELSE LET I == {i \in 0..2 : GetAdjacentTriangle(m.T[other], i) = oldTriangle}
         IN  IF I = {} THEN Fail(m, "UpdateAdjacentBackReferences")
             ELSE LET i == CHOOSE x \in I : \A y \in I : x <= y
                  IN  [m EXCEPT !.T = SetAdjacentTriangle(m.T, other, i, newTriangle)]

InitializeAdjacents(m, newTriangles, index, oldTriangle) ==
    LET index1 == (index + 1) % 3
        index2 == (index + 2) % 3
        other  == GetAdjacentTriangle(m.T[oldTriangle], index2)
        this   == newTriangles[index + 1]
    IN  IF m.err # "" THEN m
        ELSE UpdateAdjacentBackReferences(
                 [m EXCEPT !.T[this].adj =
                     <<newTriangles[index1 + 1], newTriangles[index2 + 1], other>>],
                 oldTriangle, this, other)

\* Section3 that hands every vertex to the first new triangle.
Section3First(T, oldTriangle, center, p) ==
    IF ~ClockwiseOrientation(At(T, oldTriangle, 0), At(T, oldTriangle, 1), center) THEN -1 ELSE 0

\* Where TransferVertices3 sends a vertex at p: 0, 1, 2, or -1 when an assertion fails.
Section3(T, oldTriangle, center, p) ==
    LET c0 == At(T, oldTriangle, 0)
        c1 == At(T, oldTriangle, 1)
        c2 == At(T, oldTriangle, 2)
    IN  IF ~ClockwiseOrientation(c0, c1, center) THEN -1
        ELSE IF IsVertexInSection3(p, center, c0, c1) THEN 0
        ELSE IF ~ClockwiseOrientation(c1, c2, center) THEN -1
        ELSE IF IsVertexInSection3(p, center, c1, c2) THEN 1
        ELSE IF ~ClockwiseOrientation(c2, c0, center) THEN -1
        ELSE IF IsVertexInSection3(p, center, c2, c0) THEN 2
        ELSE -1

\* TransferVertex that leaves the vertices' surrounding triangles as they are.
TransferVertexUnreferenced(m, source, moved, dest) ==
    [m EXCEPT
        !.T = [h \in DOMAIN m.T |->
                 [m.T[h] EXCEPT !.rem =
                     (IF h \in source THEN {} ELSE m.T[h].rem)
                     \cup {u \in moved : dest[u] = h}]]]

\* Moves the vertices in `moved` to the triangles dest[u] (TransferVertex).
TransferVertex(m, source, moved, dest) ==
    [m EXCEPT
        !.S = [u \in DOMAIN m.S |-> IF u \in moved THEN dest[u] ELSE m.S[u]],
        !.T = [h \in DOMAIN m.T |->
                 [m.T[h] EXCEPT !.rem =
                     (IF h \in source THEN {} ELSE m.T[h].rem)
                     \cup {u \in moved : dest[u] = h}]]]

\* The vertices go where sec sends them, if it sends them all.
TransferSections(m, oldTriangle, newTriangles, sec) ==
    IF \E u \in DOMAIN sec : sec[u] = -1 THEN Fail(m, "TransferVertices3")
    ELSE TransferVertex(m, {oldTriangle}, DOMAIN sec,
                        [u \in DOMAIN sec |-> newTriangles[sec[u] + 1]])

TransferVertices3(m, oldTriangle, newTriangles, newCornerPosition) ==
    IF m.err # "" THEN m
    ELSE TransferSections(m, oldTriangle, newTriangles,
             [u \in m.T[oldTriangle].rem |->
                 Section3(m.T, oldTriangle, newCornerPosition, pos[u])])

\* AdvancedTriangle::RemoveVertex asserts that the vertex is a remaining one.
RemoveVertex(m, triangle, vertex) ==
    IF m.err # "" THEN m
    ELSE IF vertex \notin m.T[triangle].rem THEN Fail(m, "RemoveVertex")
    ELSE [m EXCEPT !.T[triangle].rem = @ \ {vertex}]

EraseTriangle(m, triangle) ==
    IF m.err # "" THEN m ELSE [m EXCEPT !.T = Erase(m.T, {triangle})]

\* InsertPoint after its assertion: the three new triangles h, h + 1, h + 2,
\* their adjacents, the vertices of the old triangle, and the erase.
SplitTriangle(m, vertex, h, oldTriangle) ==
    LET old == m.T[oldTriangle]
        newTriangles == <<h, h + 1, h + 2>>
    IN  EraseTriangle(
          TransferVertices3(
            RemoveVertex(
              InitializeAdjacents(InitializeAdjacents(InitializeAdjacents(
                  [m EXCEPT !.T = InsertTriangle(InsertTriangle(InsertTriangle(m.T,
                      h, Corner(old, 0), Corner(old, 1), vertex),
                      h + 1, Corner(old, 1), Corner(old, 2), vertex),
                      h + 2, Corner(old, 2), Corner(old, 0), vertex)],
                  newTriangles, 0, oldTriangle),
                  newTriangles, 1, oldTriangle),
                  newTriangles, 2, oldTriangle),
              oldTriangle, vertex),
            oldTriangle, newTriangles, pos[vertex]),
          oldTriangle)

\* The split of InsertPoint, up to and including the erase of the old triangle.
Split(m, vertex, h) ==
    IF m.S[vertex] \notin DOMAIN m.T THEN Fail(m, "dangling")
    ELSE IF ~ClockwiseOrientation(At(m.T, m.S[vertex], 0), At(m.T, m.S[vertex], 1),
                                  At(m.T, m.S[vertex], 2))
    THEN Fail(m, "InsertPoint")
    ELSE SplitTriangle(m, vertex, h, m.S[vertex])

\* TransferVertices2: both old triangles hand their vertices to the new ones.
TransferVertices2(m, oldFirst, oldSecond, newFirst, newSecond, dc) ==
    LET a == At(m.T, oldFirst, dc[1])
        b == At(m.T, oldSecond, dc[2])
        moved == m.T[oldFirst].rem \cup m.T[oldSecond].rem
        bad == {u \in moved : /\ ~IsVertexInSection2(pos[u], a, b)
                              /\ ~IsVertexInSection2(pos[u], b, a)}
    IN  IF bad # {} THEN Fail(m, "TransferVertices2Impl")
        ELSE TransferVertex(m, {oldFirst, oldSecond}, moved,
                 [u \in moved |-> IF IsVertexInSection2(pos[u], a, b)
                                  THEN newFirst ELSE newSecond])

\* UpdateAdjacentRelation that links the new triangle to the neighbour but
\* not the neighbour to the new triangle.
UpdateAdjacentRelationOneWay(m, oldTriangle, oldIndex, newTriangle, newIndex) ==
    IF m.err # "" THEN m
    ELSE [m EXCEPT !.T = SetAdjacentTriangle(m.T, newTriangle, newIndex,
                             GetAdjacentTriangle(m.T[oldTriangle], oldIndex))]

UpdateAdjacentRelation(m, oldTriangle, oldIndex, newTriangle, newIndex) ==
    IF m.err # "" THEN m
    ELSE LET other == GetAdjacentTriangle(m.T[oldTriangle], oldIndex)
         IN  UpdateAdjacentBackReferences(
                 [m EXCEPT !.T = SetAdjacentTriangle(m.T, newTriangle, newIndex, other)],
                 oldTriangle, newTriangle, other)

\* The end of FlipEdges with the flag set on the first old triangle only.
FlagOldTrianglesFirstOnly(m, oldFirst, oldSecond, newFirst, newSecond) ==
    IF m.err # "" THEN m
    ELSE [m EXCEPT !.T =
            [SetAdjacentTriangle(SetAdjacentTriangle(m.T, newFirst, 0, newSecond),
                                 newSecond, 0, newFirst)
             EXCEPT ![oldFirst].flagged = TRUE]]

\* The end of FlipEdges with the old triangles erased on the spot.
FlagOldTrianglesErased(m, oldFirst, oldSecond, newFirst, newSecond) ==
    IF m.err # "" THEN m
    ELSE [m EXCEPT !.T =
            Erase(SetAdjacentTriangle(SetAdjacentTriangle(m.T, newFirst, 0, newSecond),
                                      newSecond, 0, newFirst),
                  {oldFirst, oldSecond})]

\* The end of FlipEdges: the new triangles are adjacent to each other, the old
\* ones are flagged.
FlagOldTriangles(m, oldFirst, oldSecond, newFirst, newSecond) ==
    IF m.err # "" THEN m
    ELSE [m EXCEPT !.T =
            [SetAdjacentTriangle(SetAdjacentTriangle(m.T, newFirst, 0, newSecond),
                                 newSecond, 0, newFirst)
             EXCEPT ![oldFirst].flagged = TRUE, ![oldSecond].flagged = TRUE]]

\* FlipEdges; the new triangles get the handles h (newFirst) and h + 1 (newSecond).
FlipEdges(m, h, oldFirst, oldSecond, sc1, sc2, dc) ==
    LET f == m.T[oldFirst]
        s == m.T[oldSecond]
        newFirst == h
        newSecond == h + 1
    IN  FlagOldTriangles(
          UpdateAdjacentRelation(UpdateAdjacentRelation(
          UpdateAdjacentRelation(UpdateAdjacentRelation(
            TransferVertices2(
              [m EXCEPT !.T = InsertTriangle(InsertTriangle(m.T,
                  newFirst, Corner(f, sc1[1]), Corner(s, dc[2]), Corner(f, dc[1])),
                  newSecond, Corner(s, sc2[2]), Corner(f, dc[1]), Corner(s, dc[2]))],
              oldFirst, oldSecond, newFirst, newSecond, dc),
            oldFirst, sc1[1], newSecond, 2),
            oldFirst, sc2[1], newFirst, 1),
            oldSecond, sc1[2], newSecond, 1),
            oldSecond, sc2[2], newFirst, 2),
          oldFirst, oldSecond, newFirst, newSecond)


\* ------------------------------------------------------ EnsureLocalDelaunay

\* Returns true when the specified container holds the specified vertex.
ContainsVertex(container, vertex) == vertex \in container

\* SharedBoundary that never finds a boundary vertex on the shared edge.
SharedBoundaryNever(first, sc1, sc2) == FALSE

SharedBoundary(first, sc1, sc2) ==
    \/ ContainsVertex(BoundaryVertices, Corner(first, sc1[1]))
    \/ ContainsVertex(BoundaryVertices, Corner(first, sc2[1]))

\* DisjointBoundary that never finds a boundary vertex at a disjoint corner.
DisjointBoundaryNever(first, second, dc) == FALSE

DisjointBoundary(first, second, dc) ==
    \/ ContainsVertex(BoundaryVertices, Corner(first, dc[1]))
    \/ ContainsVertex(BoundaryVertices, Corner(second, dc[2]))

\* Branch that flips on the circumcircle path whenever the pair is convex,
\* whatever the circumcircle test gives.
BranchConvexFlips(T, first, second, arr, disjointEdgeEnforced, sharedEdgeEnforced) ==
    IF disjointEdgeEnforced /\ ~sharedEdgeEnforced THEN "refuse"
    ELSE IF \/ ClockwiseOrientation(At(T, first, arr.dc[1]), At(T, second, arr.dc[2]),
                                    At(T, first, arr.sc1[1]))
            \/ ClockwiseOrientation(At(T, second, arr.dc[2]), At(T, first, arr.dc[1]),
                                    At(T, first, arr.sc2[1]))
    THEN IF sharedEdgeEnforced /\ ~disjointEdgeEnforced THEN "concave" ELSE "keep"
    ELSE IF sharedEdgeEnforced /\ ~disjointEdgeEnforced THEN "forced" ELSE "circle"

\* Branch without the orientation check of the forced path.
BranchForcedUnchecked(T, first, second, arr, disjointEdgeEnforced, sharedEdgeEnforced) ==
    IF disjointEdgeEnforced /\ ~sharedEdgeEnforced THEN "refuse"
    ELSE IF sharedEdgeEnforced /\ ~disjointEdgeEnforced THEN "forced"
    ELSE IF ~ComputeCircumcircleAsserts(T, first) \/ ~ComputeCircumcircleAsserts(T, second)
    THEN "assert"
    ELSE IF /\ InsideCircle(ComputeCircumcircle(T, first), At(T, second, arr.dc[2]))
            /\ InsideCircle(ComputeCircumcircle(T, second), At(T, first, arr.dc[1]))
         THEN "circle"
         ELSE "keep"

\* The branch EnsureLocalDelaunay takes once it knows which of the two edges
\* are enforced.
Branch(T, first, second, arr, disjointEdgeEnforced, sharedEdgeEnforced) ==
    IF disjointEdgeEnforced /\ ~sharedEdgeEnforced THEN "refuse"
    ELSE IF sharedEdgeEnforced /\ ~disjointEdgeEnforced
    THEN IF \/ ClockwiseOrientation(At(T, first, arr.dc[1]), At(T, second, arr.dc[2]),
                                    At(T, first, arr.sc1[1]))
            \/ ClockwiseOrientation(At(T, second, arr.dc[2]), At(T, first, arr.dc[1]),
                                    At(T, first, arr.sc2[1]))
         THEN "concave"
         ELSE "forced"
    ELSE IF ~ComputeCircumcircleAsserts(T, first) \/ ~ComputeCircumcircleAsserts(T, second)
    THEN "assert"
    ELSE IF /\ InsideCircle(ComputeCircumcircle(T, first), At(T, second, arr.dc[2]))
            /\ InsideCircle(ComputeCircumcircle(T, second), At(T, first, arr.dc[1]))
         THEN "circle"
         ELSE "keep"

\* The branch EnsureLocalDelaunay takes for the live pair first, second with the
\* corner arrangement arr: "refuse" and "concave" and "keep" return false without
\* a flip, "forced" and "circle" flip, "assert" is a failed assertion.
Decision(T, first, second, arr) ==
    Branch(T, first, second, arr,
        \/ DisjointBoundary(T[first], T[second], arr.dc)
        \/ IntersectsEdge(AdvancedEdge(pos, Corner(T[first], arr.dc[1]),
                                            Corner(T[second], arr.dc[2]))),
        \/ SharedBoundary(T[first], arr.sc1, arr.sc2)
        \/ IntersectsEdge(AdvancedEdge(pos, Corner(T[first], arr.sc1[1]),
                                            Corner(T[first], arr.sc2[1]))))

\* [m, op] after FlipEdges.
Flipped(m, d) == [m |-> m, op |-> IF m.err = "" THEN d ELSE "abort"]

\* Decided that flips the pair it reports as kept.
DecidedKeptFlipped(m, h, first, second, arr, d) ==
    IF d = "assert" THEN [m |-> Fail(m, "ComputeCircumcircle"), op |-> "abort"]
    ELSE IF d \in {"forced", "circle", "keep"}
    THEN Flipped(FlipEdges(m, h, first, second, arr.sc1, arr.sc2, arr.dc), d)
    ELSE [m |-> m, op |-> d]

\* [m, op] for the branch d.
Decided(m, h, first, second, arr, d) ==
    IF d = "assert" THEN [m |-> Fail(m, "ComputeCircumcircle"), op |-> "abort"]
    ELSE IF d \in {"forced", "circle"}
    THEN Flipped(FlipEdges(m, h, first, second, arr.sc1, arr.sc2, arr.dc), d)
    ELSE [m |-> m, op |-> d]

\* [m, op] for the corner arrangement arr.
Arranged(m, h, first, second, arr) ==
    IF ~arr.ok THEN [m |-> Fail(m, "ArrangeCorners"), op |-> "abort"]
    ELSE Decided(m, h, first, second, arr, Decision(m.T, first, second, arr))

\* One call EnsureLocalDelaunay(first, second) up to the point where it returns
\* or enters ChangeEdgeSituation: [m, op], with the new triangles at h and h + 1.
EnsureLocalDelaunay(m, h, first, second) ==
    IF first \notin DOMAIN m.T \/ second \notin DOMAIN m.T
    THEN [m |-> Fail(m, "dangling"), op |-> "abort"]
    ELSE IF m.T[first].flagged \/ m.T[second].flagged
    THEN [m |-> m, op |-> "skip"]
    ELSE Arranged(m, h, first, second, ArrangeCorners(m.T, first, second))


\* ------------------------------------------------------------------ inputs

\* Point sets the caller chooses its vertices from: three points in general
\* position of which two have the same coordinate sum, four points on one
\* line, the four corners of a kite, a convex quadrilateral whose short
\* diagonal is the Delaunay one, three points of which the third makes a
\* flip follow the flip of one of the triangles around it, the four corners
\* of a square, which are on one circle, and the origin alone.
Universes ==
    { { <<-1, 0>>, <<-2, 2>>, <<1, -2>> },
      { <<2, -2>>, <<-2, 2>>, <<1, -1>>, <<-1, 1>> },
      { <<-2, 0>>, <<2, 0>>, <<0, -1>>, <<0, 1>> },
      { <<2, 1>>, <<1, 1>>, <<-1, 0>> },
      { <<-1, -1>>, <<1, -1>>, <<1, 1>>, <<-1, 1>> },
      { <<0, 0>> } }

\* The vertex sequences of at most MaxPoints different points.
PointLists ==
    UNION { { f \in [1..n -> U] : \A i, j \in 1..n : f[i] = f[j] => i = j } :
            n \in 0..MaxPoints, U \in Universes }

\* The edges of the closed polygon through the vertices s[1], ..., s[Len(s)].
PolygonEdges(s) == { <<s[i], s[(i % Len(s)) + 1]>> : i \in 1..Len(s) }

\* The edge lists the caller passes for n user vertices: none, one edge, or the
\* edges of a closed polygon through three or more of the vertices.
EdgeLists(n) ==
    LET V == 4..(n + 3)
    IN  { {} }
        \cup { { <<a, b>> } : <<a, b>> \in { e \in V \X V : e[1] # e[2] } }
        \cup UNION { { PolygonEdges(s) :
                       s \in { f \in [1..k -> V] : \A i, j \in 1..k : f[i] = f[j] => i = j } } :
                     k \in 3..n }

\* ------------------------------------------------------------------- steps

Mesh == [T |-> triangles, S |-> surrounding, err |-> ""]

Step(op, first, second, r) == [op |-> op, first |-> first, second |-> second, ret |-> r]

Abort(m) ==
    /\ pc' = "abort"
    /\ failed' = m.err
    /\ last' = Step("abort", 0, 0, FALSE)
    /\ UNCHANGED <<pos, constrainedEdges, triangles, nextHandle, surrounding, inserted,
                   frames, stack>>

HasCorner(triangle, corner) ==
    Corner(triangle, 0) = corner \/ Corner(triangle, 1) = corner \/ Corner(triangle, 2) = corner

Has1Of3Corners(triangle, corners) == \E corner \in corners : HasCorner(triangle, corner)

\* The state the caller has built when the first InsertPoint is about to run:
\* CreateBoundaryPoints, every user vertex in the first triangle, SetBoundaryPositions.
Init ==
    \E points \in PointLists : \E edges \in EdgeLists(Len(points)) :
        LET n == Len(points)
            P == [v \in 1..(n + 3) |->
                     IF v <= 3
                     THEN SetBoundaryPositions([i \in 1..n |-> Vertex(points[i][1], points[i][2])])[v]
                     ELSE Vertex(points[v - 3][1], points[v - 3][2])]
        IN  /\ pos = P
            /\ constrainedEdges = { AdvancedEdge(pos, e[1], e[2]) : e \in edges }
            /\ triangles = (1 :> [AdvancedTriangle(1, 2, 3) EXCEPT !.rem = 4..(n + 3)])
            /\ nextHandle = 2
            /\ surrounding = [v \in 1..(n + 3) |-> 1]
            /\ inserted = 0
            /\ pc = "idle"
            /\ frames = <<>>
            /\ stack = <<>>
            /\ last = Step("none", 0, 0, FALSE)
            /\ failed = ""

\* The state after the split m of the triangle that surrounds the vertex.
EnterRepair(m, vertex) ==
    IF m.err # "" THEN Abort(m)
    ELSE /\ triangles' = m.T
         /\ surrounding' = m.S
         /\ nextHandle' = nextHandle + 3
         /\ frames' = << [calls |-> << <<nextHandle, 2>>, <<nextHandle + 1, 2>>,
                                       <<nextHandle + 2, 2>> >>, i |-> 1] >>
         /\ pc' = "repair"
         /\ last' = Step("split", surrounding[vertex], 0, FALSE)
         /\ UNCHANGED <<pos, constrainedEdges, inserted, stack, failed>>

\* InsertPoint up to its repair loop: the split and the erase of the old triangle.
InsertPoint ==
    /\ pc = "idle"
    /\ inserted < Cardinality(UserVertices)
    /\ EnterRepair(Split(Mesh, inserted + 4, nextHandle), inserted + 4)

\* The state after the call EnsureLocalDelaunay(triangleItr, itr) has given r;
\* advanced is the stack of frames with the caller past this call.  After a
\* flip the four calls of ChangeEdgeSituation are next.
Returned(r, advanced, triangleItr, itr) ==
    IF r.op = "abort" THEN Abort(r.m)
    ELSE /\ triangles' = r.m.T
         /\ surrounding' = r.m.S
         /\ nextHandle' = nextHandle + Cardinality(DOMAIN r.m.T \ DOMAIN triangles)
         /\ frames' = IF r.op \in {"forced", "circle"}
                      THEN Append(advanced,
                               [calls |-> << <<nextHandle, 1>>, <<nextHandle, 2>>,
                                             <<nextHandle + 1, 1>>, <<nextHandle + 1, 2>> >>,
                                i |-> 1])
                      ELSE advanced
         /\ last' = Step(r.op, triangleItr, itr, FALSE)
         /\ UNCHANGED <<pos, constrainedEdges, inserted, pc, stack, failed>>

\* The call the innermost frame makes next: from the triangle call[1], the
\* adjacent triangle in slot call[2], if valid, is handed to EnsureLocalDelaunay.
Call(depth) ==
    LET top  == frames[depth]
        call == top.calls[top.i]
        triangleItr == call[1]
    IN  IF triangleItr \notin DOMAIN triangles THEN Abort(Fail(Mesh, "dangling"))
        ELSE
        LET itr == GetAdjacentTriangle(triangles[triangleItr], call[2])
            advanced == [frames EXCEPT ![depth].i = @ + 1]
        IN  IF itr = 0
            THEN /\ last' = Step("invalid", triangleItr, 0, FALSE)
                 /\ frames' = advanced
                 /\ UNCHANGED <<pos, constrainedEdges, triangles, nextHandle, surrounding,
                                inserted, pc, stack, failed>>
            ELSE Returned(EnsureLocalDelaunay(Mesh, nextHandle, triangleItr, itr),
                          advanced, triangleItr, itr)

\* One pass of InsertPoint's loop over its three new triangles.
RepairNewTriangle ==
    /\ pc = "repair"
    /\ Len(frames) = 1
    /\ frames[1].i <= Len(frames[1].calls)
    /\ Call(1)

\* One of the four calls ChangeEdgeSituation makes after FlipEdges.
EnsureLocalDelaunayAdjacent ==
    /\ pc = "repair"
    /\ Len(frames) > 1
    /\ frames[Len(frames)].i <= Len(frames[Len(frames)].calls)
    /\ Call(Len(frames))

\* ChangeEdgeSituation is through; the EnsureLocalDelaunay that called it returns true.
ChangeEdgeSituationReturn ==
    /\ pc = "repair"
    /\ Len(frames) > 1
    /\ frames[Len(frames)].i > Len(frames[Len(frames)].calls)
    /\ frames' = SubSeq(frames, 1, Len(frames) - 1)
    /\ last' = Step("return", 0, 0, TRUE)
    /\ UNCHANGED <<pos, constrainedEdges, triangles, nextHandle, surrounding, inserted,
                   pc, stack, failed>>

\* The end of InsertPoint: the flagged triangles are removed.
InsertPointReturn ==
    /\ pc = "repair"
    /\ Len(frames) = 1
    /\ frames[1].i > Len(frames[1].calls)
    /\ triangles' = Erase(triangles, {h \in DOMAIN triangles : triangles[h].flagged})
    /\ frames' = <<>>
    /\ inserted' = inserted + 1
    /\ pc' = "idle"
    /\ last' = Step("sweep", 0, 0, FALSE)
    /\ UNCHANGED <<pos, constrainedEdges, nextHandle, surrounding, stack, failed>>

\* ------------------------------------------------------------- boundary trim

\* HasUnusedAdjacent with the test inverted: only constrained edges are crossed.
HasUnusedAdjacentInverted(triangle, index) ==
    IF IsEdgeConstrained(Corner(triangle, (index + 1) % 3), Corner(triangle, (index + 2) % 3))
    THEN GetAdjacentTriangle(triangle, index)
    ELSE 0

HasUnusedAdjacent(triangle, index) ==
    IF IsEdgeConstrained(Corner(triangle, (index + 1) % 3), Corner(triangle, (index + 2) % 3))
    THEN 0
    ELSE GetAdjacentTriangle(triangle, index)

\* RemoveOuterPolygonTriangles is entered with a triangle touching a boundary point.
RemoveOuterPolygonTriangles ==
    /\ pc = "idle"
    /\ inserted = Cardinality(UserVertices)
    /\ \E current \in DOMAIN triangles :
        /\ Has1Of3Corners(triangles[current], BoundaryVertices)
        /\ stack' = <<current>>
        /\ last' = Step("push", current, 0, FALSE)
    /\ pc' = "trim"
    /\ UNCHANGED <<pos, constrainedEdges, triangles, nextHandle, surrounding, inserted,
                   frames, failed>>

\* One pass of the loop: pop, then RemoveOuterPolygonTrianglesImpl.
RemoveOuterPolygonTrianglesImpl ==
    /\ pc = "trim"
    /\ stack # <<>>
    /\ LET current == stack[Len(stack)]
           rest == SubSeq(stack, 1, Len(stack) - 1)
       IN  IF current \notin DOMAIN triangles THEN Abort(Fail(Mesh, "dangling"))
           ELSE IF triangles[current].flagged
           THEN /\ stack' = rest
                /\ last' = Step("passed", current, 0, FALSE)
                /\ UNCHANGED <<pos, constrainedEdges, triangles, nextHandle, surrounding,
                               inserted, pc, frames, failed>>
           ELSE LET pushed == SelectSeq([i \in 1..3 |->
                                  HasUnusedAdjacent(triangles[current], i - 1)],
                                  LAMBDA a : a # 0)
                IN  /\ triangles' = [triangles EXCEPT ![current].flagged = TRUE]
                    /\ stack' = rest \o pushed
                    /\ last' = Step("flag", current, 0, FALSE)
                    /\ UNCHANGED <<pos, constrainedEdges, nextHandle, surrounding,
                                   inserted, pc, frames, failed>>

\* The stack is empty: all triangles marked as unused are removed.
RemoveOuterPolygonTrianglesSweep ==
    /\ pc = "trim"
    /\ stack = <<>>
    /\ triangles' = Erase(triangles, {h \in DOMAIN triangles : triangles[h].flagged})
    /\ pc' = "done"
    /\ last' = Step("trimmed", 0, 0, FALSE)
    /\ UNCHANGED <<pos, constrainedEdges, nextHandle, surrounding, inserted, frames,
                   stack, failed>>

Next ==
    \/ InsertPoint
    \/ RepairNewTriangle
    \/ EnsureLocalDelaunayAdjacent
    \/ ChangeEdgeSituationReturn
    \/ InsertPointReturn
    \/ RemoveOuterPolygonTriangles
    \/ RemoveOuterPolygonTrianglesImpl
    \/ RemoveOuterPolygonTrianglesSweep

Spec == Init /\ [][Next]_vars


\* ------------------------------------------------------- the mesh, observed

Corners(h) == {Corner(triangles[h], 0), Corner(triangles[h], 1), Corner(triangles[h], 2)}

\* The triangles in the list that are not flagged.
Live == {h \in DOMAIN triangles : ~triangles[h].flagged}

\* The live triangles with the vertices p and q among their corners.
TrianglesAt(p, q) == {h \in Live : {p, q} \subseteq Corners(h)}

\* InsertPoint has returned for every user vertex and the trim has not begun.
AllInserted == pc = "idle" /\ inserted = Cardinality(UserVertices)

Orientation(a, b, c) == Sgn(CrossProduct(VSub(pos[b], pos[a]), VSub(pos[c], pos[a])))

\* No three user vertices on one line.
NoThreeCollinear ==
    \A a, b, c \in UserVertices :
        Cardinality({a, b, c}) = 3 => Orientation(a, b, c) # 0

\* c is on the segment from a to b, its end points included.
OnSegment(a, b, c) ==
    /\ Orientation(a, b, c) = 0
    /\ Sgn(PAdd(PMul(VSub(pos[c], pos[a])[1], VSub(pos[c], pos[b])[1]),
                PMul(VSub(pos[c], pos[a])[2], VSub(pos[c], pos[b])[2]))) <= 0

\* The constrained edges meet in common end points only, and no other user
\* vertex lies on one.
PlanarConstraints ==
    /\ \A e, f \in constrainedEdges :
          ~Intersect(pos[e[1]], pos[e[2]], pos[f[1]], pos[f[2]])
    /\ \A e \in constrainedEdges : \A v \in UserVertices :
          v \notin {e[1], e[2]} => ~OnSegment(e[1], e[2], v)

\* p and q are the end points of a constrained edge, in either order.
Constrained(p, q) == <<p, q>> \in constrainedEdges \/ <<q, p>> \in constrainedEdges

\* The pairs of live triangles with exactly two corners in common.
AdjacentPairs ==
    {pr \in Live \X Live :
        pr[1] # pr[2] /\ Cardinality(Corners(pr[1]) \cap Corners(pr[2])) = 2}

Shared(h, g) == Corners(h) \cap Corners(g)

SharedConstrained(h, g) == \E p, q \in Shared(h, g) : p # q /\ Constrained(p, q)

\* The corner of h that is not on the edge it shares with g.
Opposite(h, g) == CHOOSE v \in Corners(h) : v \notin Corners(g)

Square(r) == PAdd(PMul(r[1], r[1]), PMul(r[2], r[2]))

Det2(a, b, c, d) == PSub(PMul(a, d), PMul(b, c))

\* The vertex v is strictly inside the circle through the corners of h: the
\* in-circle determinant has the sign of the orientation of h.
InCircumcircle(h, v) ==
    LET a == VSub(pos[Corner(triangles[h], 0)], pos[v])
        b == VSub(pos[Corner(triangles[h], 1)], pos[v])
        c == VSub(pos[Corner(triangles[h], 2)], pos[v])
        det == PAdd(PSub(PMul(a[1], Det2(b[2], Square(b), c[2], Square(c))),
                         PMul(a[2], Det2(b[1], Square(b), c[1], Square(c)))),
                    PMul(Square(a), Det2(b[1], b[2], c[1], c[2])))
    IN  Sgn(det) * Orientation(Corner(triangles[h], 0), Corner(triangles[h], 1),
                               Corner(triangles[h], 2)) > 0

LocalDelaunay(h, g) ==
    ~InCircumcircle(h, Opposite(g, h)) /\ ~InCircumcircle(g, Opposite(h, g))

\* ------------------------------------------------------------------ claims

\* C1: when InsertPoint has returned for every user point, for a planar
\* constraint set and no three input points on one line, every constrained
\* edge is an edge of the mesh: some live triangle has both its end points
\* as corners.
C1_ConstrainedEdgesInMesh ==
    (AllInserted /\ PlanarConstraints /\ NoThreeCollinear)
        => \A e \in constrainedEdges : TrianglesAt(e[1], e[2]) # {}

InnerPair(h, g) ==
    /\ (Corners(h) \cup Corners(g)) \cap BoundaryVertices = {}
    /\ ~SharedConstrained(h, g)
    /\ ~IntersectsEdge(<<Opposite(h, g), Opposite(g, h)>>)

FillComplete == pc = "trim" /\ stack = <<>>

X(v) == pos[v][1][1]

Y(v) == pos[v][2][1]

\* The constrained edges are the sides of one closed simple polygon: every
\* vertex on a constrained edge is on exactly two, and the edges are planar.
\* (Two separate polygons need six vertices, more than the model has.)
Degree(v) == Cardinality({e \in constrainedEdges : v \in {e[1], e[2]}})

SimplePolygon ==
    /\ Cardinality(constrainedEdges) >= 3
    /\ \A e \in constrainedEdges : Degree(e[1]) = 2 /\ Degree(e[2]) = 2
    /\ PlanarConstraints

\* The edge e crosses the half line from the centroid of h to the right.
\* px, py are three times the centroid's coordinates.
CrossesRay(e, px, py) ==
    LET ax == 3 * X(e[1])
        ay == 3 * Y(e[1])
        bx == 3 * X(e[2])
        by == 3 * Y(e[2])
        side == (bx - ax) * (py - ay) - (by - ay) * (px - ax)
    IN  /\ (ay > py) # (by > py)
        /\ IF by > ay THEN side > 0 ELSE side < 0

\* The triangle h of user vertices has its centroid inside the polygon.
InsidePolygon(h) ==
    /\ Corners(h) \cap BoundaryVertices = {}
    /\ LET px == X(Corner(triangles[h], 0)) + X(Corner(triangles[h], 1))
                    + X(Corner(triangles[h], 2))
           py == Y(Corner(triangles[h], 0)) + Y(Corner(triangles[h], 1))
                    + Y(Corner(triangles[h], 2))
       IN  Cardinality({e \in constrainedEdges : CrossesRay(e, px, py)}) % 2 = 1

\* C4: when the constrained edges form a closed simple polygon and no three
\* input points are on one line, the flood fill flags exactly the triangles
\* outside the polygon, so that the sweep leaves exactly those inside.
C4_TrimLeavesPolygonInterior ==
    (FillComplete /\ SimplePolygon /\ NoThreeCollinear) =>
        \A h \in DOMAIN triangles : triangles[h].flagged <=> ~InsidePolygon(h)

C6_NoBoundaryCornerAfterTrim ==
    pc = "done" => \A h \in DOMAIN triangles : Corners(h) \cap BoundaryVertices = {}

\* The trim has left triangles in the list.
C6_Witness == pc = "done" /\ DOMAIN triangles # {} /\ PlanarConstraints

\* ---- erasure and adjacency

\* No adjacency slot of a triangle in the list refers to a triangle that is
\* no longer in the list.
NoDanglingAdjacent ==
    \A h \in DOMAIN triangles : \A i \in 0..2 :
        GetAdjacentTriangle(triangles[h], i) \in DOMAIN triangles \cup {0}

Erased == 1..(nextHandle - 1) \ DOMAIN triangles

C8_AdjacencySymmetric ==
    pc = "idle" =>
        \A a \in DOMAIN triangles : \A i \in 0..2 :
            LET b == GetAdjacentTriangle(triangles[a], i)
                edge == {Corner(triangles[a], (i + 1) % 3), Corner(triangles[a], (i + 2) % 3)}
            IN  b # 0 =>
                    /\ b \in Live
                    /\ edge \subseteq Corners(b)
                    /\ \E k \in 0..2 :
                          /\ Corner(triangles[b], k) \notin edge
                          /\ GetAdjacentTriangle(triangles[b], k) = a

\* InsertPoint has returned after at least one edge flip.
C8_Witness == pc = "idle" /\ inserted >= 1 /\ Cardinality(Erased) > inserted

\* ---- geometry of the triangles

TriangleOrientation(h) ==
    Orientation(Corner(triangles[h], 0), Corner(triangles[h], 1), Corner(triangles[h], 2))

\* C9, as stated: before the trim, every triangle that is not flagged has its
\* corners in clockwise order and is not degenerate.
C9_ClockwiseNonDegenerate ==
    pc \in {"idle", "repair"} => \A h \in Live : TriangleOrientation(h) < 0

\* C9, amended: before the trim, every triangle that is not flagged has its
\* corners in clockwise order as ClockwiseOrientation tells it (the cross
\* product is not positive), and is not degenerate when no three input points
\* are on one line.
C9_ClockwiseInGeneralPosition ==
    pc \in {"idle", "repair"} =>
        \A h \in Live :
            /\ TriangleOrientation(h) <= 0
            /\ NoThreeCollinear => TriangleOrientation(h) < 0

\* An edge flip has just been made, on points of which no three are on a line.
C9_Witness == pc = "repair" /\ last.op \in {"forced", "circle"} /\ NoThreeCollinear

\* The line through corners i and i + 1 of h has the interior of h on one
\* side and every corner of g on the other side or on the line.
Separates(h, i, g) ==
    LET a == Corner(triangles[h], i)
        b == Corner(triangles[h], (i + 1) % 3)
    IN  \A v \in Corners(g) : Orientation(a, b, v) * TriangleOrientation(h) <= 0

\* The interiors of h and g have no point in common.
InteriorsDisjoint(h, g) ==
    \/ TriangleOrientation(h) = 0
    \/ TriangleOrientation(g) = 0
    \/ \E i \in 0..2 : Separates(h, i, g) \/ Separates(g, i, h)

\* C10: whenever InsertPoint has returned, and after the trim, no two
\* triangles in the list have overlapping interiors, and two vertices are
\* corners of at most two triangles together.
C10_Planar ==
    pc \in {"idle", "done"} =>
        /\ \A h, g \in DOMAIN triangles : h # g => InteriorsDisjoint(h, g)
        /\ \A p, q \in DOMAIN pos :
              p # q => Cardinality({h \in DOMAIN triangles : {p, q} \subseteq Corners(h)}) <= 2

\* InsertPoint has returned for all of three or more points, after edge flips.
C10_Witness == AllInserted /\ inserted >= 3 /\ Cardinality(Erased) > inserted

\* The vertex v is inside or on the triangle h, whose corners are clockwise.
InsideOrOn(h, v) ==
    \A i \in 0..2 :
        Orientation(Corner(triangles[h], i), Corner(triangles[h], (i + 1) % 3), v) <= 0

\* The user vertices InsertPoint has not been called for.
Waiting == {u \in UserVertices : u > inserted + 3}

\* The triangles with v among their remaining vertices.
Holders(v) == {h \in DOMAIN triangles : v \in triangles[h].rem}

\* C11: whenever InsertPoint has returned, every user vertex not yet inserted
\* is a remaining vertex of exactly one triangle, which is in the list, not
\* flagged, the vertex's surrounding triangle, and has the vertex inside or on
\* it; an inserted vertex is a remaining vertex of no triangle.
C11_RemainingVertices ==
    pc = "idle" =>
        /\ \A u \in Waiting :
              /\ Holders(u) = {surrounding[u]}
              /\ ~triangles[surrounding[u]].flagged
              /\ InsideOrOn(surrounding[u], u)
        /\ \A u \in UserVertices \ Waiting : Holders(u) = {}

\* InsertPoint has swept flagged triangles away while a vertex was waiting.
C11_Witness ==
    /\ last.op = "sweep"
    /\ Waiting # {}
    /\ Cardinality(Erased) > inserted

\* C12: when InsertPoint has returned for each of the N user points, with no
\* constrained edge, and the trim has not begun, the list holds 2N + 1
\* triangles and none of them is flagged.
C12_TriangleCount ==
    (AllInserted /\ constrainedEdges = {}) =>
        /\ Cardinality(DOMAIN triangles) = 2 * Cardinality(UserVertices) + 1
        /\ Live = DOMAIN triangles

\* All of three or more points are in, without constraints and after flips.
C12_Witness ==
    /\ AllInserted
    /\ constrainedEdges = {}
    /\ inserted >= 3
    /\ Cardinality(Erased) > inserted

\* C13 as claimed: ClockwiseOrientation(a, b, c) is true exactly when the z
\* component of the cross product of b - a and c - a is negative, so that it
\* is false for every collinear triple, coincident points included.
C13_TiesNotClockwise ==
    pc = "idle" =>
        \A a, b, c \in DOMAIN pos :
            ClockwiseOrientation(pos[a], pos[b], pos[c]) <=> Orientation(a, b, c) = -1

\* C13: ClockwiseOrientation(a, b, c) decides by the sign of the z component
\* of the cross product of b - a and c - a: it is true when the component is
\* negative and also when it is zero, which is so for every collinear triple,
\* coincident points included, and false when it is positive.
C13_TiesClockwise ==
    pc = "idle" =>
        \A a, b, c \in DOMAIN pos :
            ClockwiseOrientation(pos[a], pos[b], pos[c]) <=> Orientation(a, b, c) \in {-1, 0}

\* InsertPoint has returned and left a triangle of three different vertices
\* on one line, whose corners the function takes as clockwise.
C13_Witness ==
    /\ pc = "idle"
    /\ \E h \in Live :
          /\ Cardinality(Corners(h)) = 3
          /\ TriangleOrientation(h) = 0
          /\ ClockwiseOrientation(At(triangles, h, 0), At(triangles, h, 1), At(triangles, h, 2))

\* A list with the one triangle of the corners a, b, c.
Single(a, b, c) == 1 :> AdvancedTriangle(a, b, c)

\* C14: ComputeCircumcircle fails its assertion whenever two of the three
\* corners of the triangle are at the same position: corners 0 and 1,
\* corners 0 and 2, or corners 1 and 2.
C14_CoincidentCornersAssert ==
    \A a, b, c \in DOMAIN pos :
        (pos[a] = pos[b] \/ pos[a] = pos[c] \/ pos[b] = pos[c])
            => ~ComputeCircumcircleAsserts(Single(a, b, c), 1)

\* C15: a constrained edge is found from either end, IsEdgeConstrained(p, q)
\* and IsEdgeConstrained(q, p) are both true for the end points p, q of every
\* edge put into the set, and so the flood fill of the trim crosses no edge
\* of a triangle whose end points are those of a constrained edge.
C15_ConstrainedEdgesUndirected ==
    /\ \A e \in constrainedEdges :
          IsEdgeConstrained(e[1], e[2]) /\ IsEdgeConstrained(e[2], e[1])
    /\ \A h \in DOMAIN triangles : \A i \in 0..2 :
          Constrained(Corner(triangles[h], (i + 1) % 3), Corner(triangles[h], (i + 2) % 3))
              => HasUnusedAdjacent(triangles[h], i) = 0

\* C16: once one of the four calls of ChangeEdgeSituation has returned true,
\* having flipped, ChangeEdgeSituation makes no further call: its next step
\* is its own return.
C16_ShortCircuit ==
    [][(pc = "repair" /\ last.op = "return" /\ Len(frames) > 1)
           => Len(frames') < Len(frames)]_vars

\* The call the innermost frame makes next, if it has one left: <<triangle, slot>>.
Pending == frames # <<>> /\ frames[Len(frames)].i <= Len(frames[Len(frames)].calls)

NextCall == frames[Len(frames)].calls[frames[Len(frames)].i]

\* C17: neither the loop of InsertPoint over its three new triangles nor
\* EnsureLocalDelaunayAdjacent reads an adjacency slot of a triangle that is
\* flagged: the triangle of the next call is never a flagged one.
C17_FlaggedNotRead ==
    (pc = "repair" /\ Pending /\ NextCall[1] \in DOMAIN triangles)
        => ~triangles[NextCall[1]].flagged

\* The handles the loop of InsertPoint and the calls of ChangeEdgeSituation hold.
HeldHandles == {frames[d].calls[k][1] : d \in 1..Len(frames), k \in 1..3} \cup
               {frames[d].calls[k][1] :
                    d \in {x \in 1..Len(frames) : Len(frames[x].calls) = 4}, k \in {4}}

\* C18: within InsertPoint no erased triangle is dereferenced: no step of it
\* ends on a handle that is not in the list, every handle the loop over the
\* three new triangles and the repair recursion hold is in the list, so is
\* every adjacent of a triangle in the list, and so is the surrounding
\* triangle of the vertex that is inserted next.
C18_NoErasedTriangleUsed ==
    /\ (pc = "abort" /\ stack = <<>>) => failed # "dangling"
    /\ pc = "repair" => HeldHandles \subseteq DOMAIN triangles
    /\ pc \in {"idle", "repair"} => NoDanglingAdjacent
    /\ (pc = "idle" /\ Waiting # {}) => surrounding[inserted + 4] \in DOMAIN triangles

\* The recursion is two flips deep, the flagged triangles of both still in
\* the list, next to triangles that were erased before.
C18_Witness ==
    /\ pc = "repair"
    /\ Len(frames) >= 3
    /\ Cardinality(DOMAIN triangles \ Live) >= 4
    /\ Erased # {}

\* A constrained edge crosses the segment between the vertices p and q.
Crossed(p, q) ==
    \E e \in constrainedEdges : Intersect(pos[p], pos[q], pos[e[1]], pos[e[2]])

\* The edge h and g share is enforced: one of its end points is a synthetic
\* boundary vertex, or it crosses a constrained edge.
SharedEnforced(h, g) ==
    \/ Shared(h, g) \cap BoundaryVertices # {}
    \/ \E p, q \in Shared(h, g) : p # q /\ Crossed(p, q)

\* The same for the edge between the corners h and g do not share.
DisjointEnforced(h, g) ==
    \/ {Opposite(h, g), Opposite(g, h)} \cap BoundaryVertices # {}
    \/ Crossed(Opposite(h, g), Opposite(g, h))

\* The quadrilateral h and g merge into is convex: the end points of the
\* shared edge are strictly on different sides of the line through the two
\* other corners.
Convex(h, g) ==
    \E p, q \in Shared(h, g) :
        /\ p # q
        /\ Orientation(Opposite(h, g), Opposite(g, h), p)
             * Orientation(Opposite(h, g), Opposite(g, h), q) < 0

\* EnsureLocalDelaunay has just decided about the live triangles last.first
\* and last.second.
Decided2 == pc = "repair" /\ last.op \in {"refuse", "concave", "forced", "circle", "keep"}

\* The call has flipped: the two triangles are flagged, and the frame of
\* ChangeEdgeSituation, at whose end true is returned, is entered.
FlipDone ==
    /\ triangles[last.first].flagged /\ triangles[last.second].flagged
    /\ Len(frames) >= 2
    /\ frames[Len(frames)].i = 1

\* The call has returned false and left the two triangles as they were.
NoFlipDone ==
    /\ ~triangles[last.first].flagged /\ ~triangles[last.second].flagged
    /\ last.ret = FALSE
    /\ frames[Len(frames)].i > 1

\* C19: for two live adjacent triangles, when only the disjoint edge is
\* enforced EnsureLocalDelaunay does not flip and returns false; when only
\* the shared edge is enforced it flips, and returns true, exactly when the
\* merged quadrilateral is convex, and otherwise does not flip and returns
\* false.
C19_EnforcedEdges ==
    Decided2 =>
        /\ (DisjointEnforced(last.first, last.second)
              /\ ~SharedEnforced(last.first, last.second))
              => (last.op = "refuse" /\ NoFlipDone)
        /\ (SharedEnforced(last.first, last.second)
              /\ ~DisjointEnforced(last.first, last.second))
              => IF Convex(last.first, last.second)
                 THEN last.op = "forced" /\ FlipDone
                 ELSE last.op = "concave" /\ NoFlipDone

\* A flip was forced on a pair whose shared edge crosses a constrained edge.
C19_Witness ==
    /\ Decided2
    /\ last.op = "forced"
    /\ ~DisjointEnforced(last.first, last.second)
    /\ \E p, q \in Shared(last.first, last.second) : p # q /\ Crossed(p, q)

\* The vertex v is on the circle through the corners of h.
OnCircumcircle(h, v) ==
    LET a == VSub(pos[Corner(triangles[h], 0)], pos[v])
        b == VSub(pos[Corner(triangles[h], 1)], pos[v])
        c == VSub(pos[Corner(triangles[h], 2)], pos[v])
    IN  Sgn(PAdd(PSub(PMul(a[1], Det2(b[2], Square(b), c[2], Square(c))),
                      PMul(a[2], Det2(b[1], Square(b), c[1], Square(c)))),
                 PMul(Square(a), Det2(b[1], b[2], c[1], c[2])))) = 0

\* C20: for two live adjacent triangles with neither the shared nor the
\* disjoint edge enforced, EnsureLocalDelaunay flips, and returns true,
\* exactly when the disjoint corner of each triangle is strictly inside the
\* circumcircle of the other; with the four corners on one circle it does
\* not flip and returns false.
C20_CircleTest ==
    (/\ Decided2
     /\ ~SharedEnforced(last.first, last.second)
     /\ ~DisjointEnforced(last.first, last.second))
        => IF /\ InCircumcircle(last.first, Opposite(last.second, last.first))
              /\ InCircumcircle(last.second, Opposite(last.first, last.second))
           THEN last.op = "circle" /\ FlipDone
           ELSE last.op = "keep" /\ NoFlipDone

\* The call was for two triangles whose four corners are on one circle, with
\* no edge enforced, and it has not flipped.
C20_Witness ==
    /\ Decided2
    /\ ~SharedEnforced(last.first, last.second)
    /\ ~DisjointEnforced(last.first, last.second)
    /\ OnCircumcircle(last.first, Opposite(last.second, last.first))
    /\ last.op = "keep"

\* C21: for two live adjacent triangles with both the shared and the disjoint
\* edge enforced, EnsureLocalDelaunay decides as with neither enforced: it
\* flips, and returns true, exactly when the disjoint corner of each triangle
\* is strictly inside the circumcircle of the other, and no convexity test
\* is made.
C21_BothEnforced ==
    (/\ Decided2
     /\ SharedEnforced(last.first, last.second)
     /\ DisjointEnforced(last.first, last.second))
        => IF /\ InCircumcircle(last.first, Opposite(last.second, last.first))
              /\ InCircumcircle(last.second, Opposite(last.first, last.second))
           THEN last.op = "circle" /\ FlipDone
           ELSE last.op = "keep" /\ NoFlipDone

\* An enforced shared edge has been flipped by the circle test, the disjoint
\* edge being enforced as well.
C21_Witness ==
    /\ Decided2
    /\ SharedEnforced(last.first, last.second)
    /\ DisjointEnforced(last.first, last.second)
    /\ last.op = "circle"

\* C22: a call of EnsureLocalDelaunay that returns false, the call with a
\* flagged argument and the call on a pair that is kept among them, leaves
\* the list, every triangle in it and every vertex's surrounding triangle
\* as they were; a call that changes any of them has flagged both its
\* arguments, and only such a call returns true.
C22_FalseLeavesMesh ==
    [][(pc = "repair" /\ pc' = "repair") =>
          /\ last'.op \in {"skip", "refuse", "concave", "keep"}
                => /\ triangles' = triangles
                   /\ surrounding' = surrounding
                   /\ nextHandle' = nextHandle
                   /\ Len(frames') = Len(frames)
          /\ (triangles' # triangles \/ surrounding' # surrounding
                \/ Len(frames') > Len(frames))
                => /\ last'.op \in {"forced", "circle"}
                   /\ ~triangles[last'.first].flagged /\ ~triangles[last'.second].flagged
                   /\ triangles'[last'.first].flagged /\ triangles'[last'.second].flagged]_vars

\* A call with a flagged argument has returned.
C22_Witness == pc = "repair" /\ last.op = "skip"

\* The triangles next to h across an edge of h that is not a constrained one.
Passable(h) ==
    {GetAdjacentTriangle(triangles[h], i) :
        i \in {j \in 0..2 : ~Constrained(Corner(triangles[h], (j + 1) % 3),
                                         Corner(triangles[h], (j + 2) % 3))}} \ {0}

\* The triangles reachable from those in S along such links.
RECURSIVE ReachFrom(_)
ReachFrom(S) ==
    IF UNION {Passable(h) : h \in S} \subseteq S THEN S
    ELSE ReachFrom(S \cup UNION {Passable(h) : h \in S})

\* The triangles the fill has flagged.
Flagged == DOMAIN triangles \ Live

\* C23: when the fill of RemoveOuterPolygonTriangles is through, the flagged
\* triangles, which are the ones erased next, are exactly those reachable
\* from the start triangle, a triangle with a boundary corner, along
\* adjacency links that cross no constrained edge; every other triangle is
\* in the list and not flagged.
C23_TrimErasesReachable ==
    FillComplete =>
        \E s \in DOMAIN triangles :
            /\ Has1Of3Corners(triangles[s], BoundaryVertices)
            /\ Flagged = ReachFrom({s})

\* The most flips the InsertPoint calls of one run make together.
MaxFlips == 5

\* The InsertPoint calls that have split a triangle.
Splits == inserted + (IF pc = "repair" THEN 1 ELSE 0)

\* The flips made so far: a split takes three handles, a flip two.
FlipsDone == (nextHandle - 2 - 3 * Splits) \div 2

\* The calls the loop of InsertPoint and the ChangeEdgeSituation calls on the
\* stack have still to make, and the returns still to come.
RECURSIVE CallsLeft(_)
CallsLeft(f) ==
    IF f = <<>> THEN 0
    ELSE CallsLeft(Tail(f)) + (Len(Head(f).calls) + 1 - Head(f).i) + 1

\* Some step of InsertPoint can be taken.
RepairCanStep == frames # <<>> /\ frames[Len(frames)].i <= Len(frames[Len(frames)].calls) + 1

\* C24: every InsertPoint call terminates.  Within InsertPoint some step can
\* always be taken and the flips made are bounded; every step that stays
\* within InsertPoint either flips, which takes two new handles, or makes no
\* flip and leaves fewer calls and returns to come.  So forced flips and
\* circumcircle flips, mixed or not, never cycle.
C24_InsertPointTerminates ==
    /\ [](pc = "repair" => RepairCanStep /\ FlipsDone <= MaxFlips)
    /\ [][(pc = "repair" /\ pc' = "repair")
            => \/ nextHandle' = nextHandle + 2 /\ last'.op \in {"forced", "circle"}
               \/ nextHandle' = nextHandle /\ CallsLeft(frames') < CallsLeft(frames)]_vars

\* InsertPoint has returned after the most flips of the model, on an input
\* with constrained edges.
C24_Witness ==
    /\ pc = "idle"
    /\ last.op = "sweep"
    /\ FlipsDone = MaxFlips
    /\ constrainedEdges # {}

\* FlipEdges has just been executed on the triangles last.first and
\* last.second; the two triangles it made have the two newest handles.
JustFlipped == pc = "repair" /\ last.op \in {"forced", "circle"}

\* The interiors of h and g are on different sides of a line through an edge
\* of one of them, neither being degenerate.
NoOverlap(h, g) ==
    /\ TriangleOrientation(h) # 0
    /\ TriangleOrientation(g) # 0
    /\ \E i \in 0..2 : Separates(h, i, g) \/ Separates(g, i, h)

\* C25: FlipEdges is only executed on two triangles whose merged quadrilateral
\* is strictly convex, on the forced path and on the circumcircle path of
\* EnsureLocalDelaunay alike; the two triangles a flip makes are not
\* degenerate and do not overlap.
C25_FlipOnlyConvex ==
    JustFlipped =>
        /\ Convex(last.first, last.second)
        /\ NoOverlap(nextHandle - 2, nextHandle - 1)

\* A flip on the circumcircle path, made without a convexity test, with both
\* edges enforced.
C25_Witness ==
    /\ JustFlipped
    /\ last.op = "circle"
    /\ SharedEnforced(last.first, last.second)
    /\ DisjointEnforced(last.first, last.second)
    /\ FlipsDone >= 2

\* C26, as stated: on input with different point positions and planar
\* constraints no assertion is reached in a failing state.  (The caller's
\* points are always at different positions.)
C26_NoAssertionFails == failed = "" \/ ~PlanarConstraints

\* C26, amended: on input with different point positions, no three of them on
\* one line, and planar constraints, no assertion is reached in a failing
\* state: not those of ArrangeCorners, UpdateAdjacentBackReferences and
\* RemoveVertex, nor the wedge and half-plane assertions of IsVertexInSection,
\* TransferVertices3 and TransferVertices2Impl, nor any other, and no handle
\* of an erased triangle is used.
C26_NoAssertionFailsInGeneralPosition ==
    (failed = "" /\ pc # "abort") \/ ~(PlanarConstraints /\ NoThreeCollinear)

\* Four points in general position with planar constraints have all been
\* inserted, with splits and flips that moved remaining vertices.
C26_Witness ==
    /\ AllInserted
    /\ Cardinality(UserVertices) = 4
    /\ PlanarConstraints
    /\ NoThreeCollinear
    /\ constrainedEdges # {}
    /\ FlipsDone >= 3

\* The largest absolute coordinate of the caller's points, 0 if there is none.
InputMax == MaxOf({0} \cup {Abs(X(u)) : u \in UserVertices} \cup {Abs(Y(u)) : u \in UserVertices})

\* The boundary positions (eps, 4M - eps), (4M + eps, -eps), (-4M - eps, -4M + eps).
BoundaryAt(M) ==
    /\ pos[1] = << <<0, 1>>, <<4 * M, -1>> >>
    /\ pos[2] = << <<4 * M, 1>>, <<0, -1>> >>
    /\ pos[3] = << <<-4 * M, -1>>, <<-4 * M, 1>> >>

\* The boundary positions are three different ones, in clockwise order and
\* not on one line, and every point of the caller is strictly inside the
\* triangle they make.
BoundarySurrounds ==
    /\ pos[1] # pos[2] /\ pos[2] # pos[3] /\ pos[3] # pos[1]
    /\ Orientation(1, 2, 3) < 0
    /\ \A u \in UserVertices :
          /\ Orientation(1, 2, u) < 0
          /\ Orientation(2, 3, u) < 0
          /\ Orientation(3, 1, u) < 0

\* C27, as stated: with M the largest absolute coordinate of the caller's
\* points, M = 0 included, the boundary positions are (eps, 4M - eps),
\* (4M + eps, -eps), (-4M - eps, -4M + eps), they are different, clockwise and
\* not on one line, and every point is strictly inside their triangle.
C27_BoundaryOfInput == BoundaryAt(InputMax) /\ BoundarySurrounds

\* C27, amended: the same with M the largest absolute coordinate of the
\* caller's points and of the dummy vertices as CreateBoundaryPoints made
\* them, (-1, 0), (0, 1), (1, 0), so that M is 1 at least.
C27_BoundaryOfAllVertices == BoundaryAt(Max2(1, InputMax)) /\ BoundarySurrounds

\* The caller's only point is the origin, and it has been inserted.
C27_Witness == UserVertices # {} /\ InputMax = 0 /\ AllInserted

====
